---- MODULE Spec2Model ----
(***************************************************************************)
(* Model of the environment-wrapper stages of mvp/env_wrappers.py (the     *)
(* reward-, observation- and action-shaping gym wrappers) and of the       *)
(* episode driver of mvp/testing/latent_with_vis.py.                       *)
(*                                                                         *)
(* Numbers are Python floats, IEEE-754 binary64, computed as the           *)
(* interpreter computes them: every arithmetic operation is carried out    *)
(* exactly on arbitrary-precision naturals and rounded once, to nearest,   *)
(* ties to even, to a 53-bit significand.  TLC's integers are 32 bits      *)
(* wide, so the naturals are kept as little-endian sequences of limbs.     *)
(***************************************************************************)
EXTENDS Integers, Sequences, FiniteSets, TLC

(***************************************************************************)
(* Arbitrary-precision naturals: <<l1, l2, ...>> is l1 + l2*Base + ...,    *)
(* every limb in 0..Base-1, the last limb not 0; <<>> is 0.                *)
(***************************************************************************)
LimbBits == 13
Base == 2^LimbBits

RECURSIVE BNorm(_)
BNorm(a) ==
    IF a = <<>> THEN a
    ELSE IF a[Len(a)] = 0 THEN BNorm(SubSeq(a, 1, Len(a) - 1)) ELSE a

RECURSIVE BFromNat(_)
BFromNat(n) == IF n = 0 THEN <<>> ELSE <<n % Base>> \o BFromNat(n \div Base)

Limb(a, i) == IF i <= Len(a) THEN a[i] ELSE 0

RECURSIVE BAddC(_, _, _, _)
BAddC(a, b, i, c) ==
    IF i > Len(a) /\ i > Len(b) THEN (IF c = 0 THEN <<>> ELSE <<c>>)
    ELSE LET t == Limb(a, i) + Limb(b, i) + c
         IN  <<t % Base>> \o BAddC(a, b, i + 1, t \div Base)

BAdd(a, b) == BAddC(a, b, 1, 0)

RECURSIVE BSubC(_, _, _, _)
BSubC(a, b, i, c) ==
    IF i > Len(a) THEN <<>>
    ELSE LET t == Limb(a, i) - Limb(b, i) - c
         IN  IF t < 0 THEN <<t + Base>> \o BSubC(a, b, i + 1, 1)
                      ELSE <<t>> \o BSubC(a, b, i + 1, 0)

\* a - b for a >= b
BSub(a, b) == BNorm(BSubC(a, b, 1, 0))

RECURSIVE BCmpAt(_, _, _)
BCmpAt(a, b, i) ==
    IF i = 0 THEN 0
    ELSE IF a[i] < b[i] THEN -1
    ELSE IF a[i] > b[i] THEN 1
    ELSE BCmpAt(a, b, i - 1)

\* -1, 0, 1 as a < b, a = b, a > b
BCmp(a, b) ==
    IF Len(a) < Len(b) THEN -1
    ELSE IF Len(a) > Len(b) THEN 1
    ELSE BCmpAt(a, b, Len(a))

RECURSIVE BMulSmallC(_, _, _, _)
BMulSmallC(a, n, i, c) ==
    IF i > Len(a) THEN BFromNat(c)
    ELSE LET t == a[i] * n + c
         IN  <<t % Base>> \o BMulSmallC(a, n, i + 1, t \div Base)

\* a * n for a one-limb n
BMulSmall(a, n) == IF n = 0 THEN <<>> ELSE BMulSmallC(a, n, 1, 0)

ShiftLimbs(a, k) == IF a = <<>> THEN a ELSE [j \in 1..k |-> 0] \o a

RECURSIVE BMulAt(_, _, _)
BMulAt(a, b, i) ==
    IF i > Len(b) THEN <<>>
    ELSE BAdd(ShiftLimbs(BMulSmall(a, b[i]), i - 1), BMulAt(a, b, i + 1))

BMul(a, b) == BMulAt(a, b, 1)

\* a * 2^k
BShl(a, k) == BMulSmall(ShiftLimbs(a, k \div LimbBits), 2^(k % LimbBits))

RECURSIVE BDivSmallAt(_, _, _, _)
BDivSmallAt(a, n, i, r) ==
    IF i = 0 THEN <<>>
    ELSE LET cur == r * Base + a[i]
         IN  BDivSmallAt(a, n, i - 1, cur % n) \o <<cur \div n>>

\* a \div n for a one-limb n > 0
BDivSmall(a, n) == BNorm(BDivSmallAt(a, n, Len(a), 0))

\* a \div 2^k
BShr(a, k) ==
    LET w == k \div LimbBits
    IN  IF w >= Len(a) THEN <<>>
        ELSE BDivSmall(SubSeq(a, w + 1, Len(a)), 2^(k % LimbBits))

\* a % 2^k
BLow(a, k) == BSub(a, BShl(BShr(a, k), k))

RECURSIVE BitLenInt(_)
BitLenInt(n) == IF n = 0 THEN 0 ELSE 1 + BitLenInt(n \div 2)

BBitLen(a) ==
    IF a = <<>> THEN 0 ELSE LimbBits * (Len(a) - 1) + BitLenInt(a[Len(a)])

BBit(a, i) == (Limb(a, (i \div LimbBits) + 1) \div 2^(i % LimbBits)) % 2

BIsOdd(a) == a # <<>> /\ a[1] % 2 = 1

\* One digit of a long division: [q, r] with cur = q*d + r and r < d, for
\* cur < d*Base and a d whose last limb is at least Base/2.  The estimate
\* from the leading limbs is the digit or at most 2 above it.
BDivEst(cur, d) ==
    IF (Limb(cur, Len(d) + 1) * Base + Limb(cur, Len(d))) \div d[Len(d)] > Base - 1
    THEN Base - 1
    ELSE (Limb(cur, Len(d) + 1) * Base + Limb(cur, Len(d))) \div d[Len(d)]

\* q1 is the digit or 1 above it, p1 = q1*d
BDivFix1(cur, d, q1, p1) ==
    IF BCmp(p1, cur) <= 0 THEN [q |-> q1, r |-> BSub(cur, p1)]
    ELSE [q |-> q1 - 1, r |-> BSub(cur, BSub(p1, d))]

\* q0 is the digit or at most 2 above it, p0 = q0*d
BDivFix(cur, d, q0, p0) ==
    IF BCmp(p0, cur) <= 0 THEN [q |-> q0, r |-> BSub(cur, p0)]
    ELSE BDivFix1(cur, d, q0 - 1, BSub(p0, d))

BDivTry(cur, d, q0) == BDivFix(cur, d, q0, BMulSmall(d, q0))

BDivStep(cur, d) == BDivTry(cur, d, BDivEst(cur, d))

\* The quotient's digits and the remainder after one more digit st
BDivPush(qr, st) == [q |-> <<st.q>> \o qr.q, r |-> st.r]

\* Long division, one limb of a at a time from limb j down, carrying the
\* quotient's digits q and the remainder r of the limbs above j.
RECURSIVE BDivModAt(_, _, _, _)
BDivModAt(a, d, j, qr) ==
    IF j = 0 \/ Len(qr.q) < 0 THEN qr
    ELSE BDivModAt(a, d, j - 1, BDivPush(qr, BDivStep(BNorm(<<a[j]>> \o qr.r), d)))

BDivModOut(qr, sh) == [q |-> BNorm(qr.q), r |-> BShr(qr.r, sh)]

\* a and d shifted left by sh, so that d's last limb is at least Base/2
BDivModNorm(a, d, sh) ==
    BDivModOut(BDivModAt(a, d, Len(a), [q |-> <<>>, r |-> <<>>]), sh)

BDivModBy(a, d, sh) == BDivModNorm(BShl(a, sh), BShl(d, sh), sh)

\* [q, r] with a = q*d + r and r < d, for d > 0
BDivMod(a, d) == BDivModBy(a, d, LimbBits - BitLenInt(d[Len(d)]))

(***************************************************************************)
(* Python floats.  A finite non-zero float is (-1)^s * m * 2^e with m a    *)
(* natural of exactly MantBits bits; the two zeros are one value (they     *)
(* compare equal in Python); exponents are not range-checked (no value of  *)
(* the model comes near the overflow or the subnormal range).              *)
(***************************************************************************)
MantBits == 53

Zero == [k |-> "zero", s |-> 0, m |-> <<>>, e |-> 0]
NaN == [k |-> "nan", s |-> 0, m |-> <<>>, e |-> 0]
Inf(s) == [k |-> "inf", s |-> s, m |-> <<>>, e |-> 0]
Num(s, m, e) == [k |-> "num", s |-> s, m |-> m, e |-> e]

\* q1 * 2^e with q1 of MantBits bits, or of one more after a carry
RoundCarry(s, q1, e) ==
    IF BBitLen(q1) > MantBits THEN Num(s, BShr(q1, 1), e + 1) ELSE Num(s, q1, e)

\* q is the value's integer part in units of 2^e; c compares the rest with
\* half a unit: round to nearest, ties to even
RoundHalf(s, q, c, e, sticky) ==
    RoundCarry(s,
               IF c > 0 \/ (c = 0 /\ (sticky \/ BIsOdd(q))) THEN BAdd(q, <<1>>) ELSE q,
               e)

\* n has L bits
RoundBits(s, n, e, sticky, L) ==
    IF L <= MantBits
    THEN Num(s, BShl(n, MantBits - L), e - (MantBits - L))
    ELSE RoundHalf(s, BShr(n, L - MantBits),
                   BCmp(BLow(n, L - MantBits), BShl(<<1>>, L - MantBits - 1)),
                   e + (L - MantBits), sticky)

\* The float nearest to (-1)^s * (n + f) * 2^e, where 0 < f < 1 if sticky
\* and f = 0 if not: round to nearest, ties to even.
Round(s, n, e, sticky) ==
    IF n = <<>> THEN Zero ELSE RoundBits(s, n, e, sticky, BBitLen(n))

FNeg(x) == IF x.k \in {"num", "inf"} THEN [x EXCEPT !.s = 1 - x.s] ELSE x

FAbs(x) == [x EXCEPT !.s = 0]

\* X and Y are |x| and |y| in units of 2^lo, c compares them
FAddAligned(sx, sy, X, Y, c, lo) ==
    Round(IF sx = sy \/ c > 0 THEN sx ELSE sy,
          IF sx = sy THEN BAdd(X, Y) ELSE IF c > 0 THEN BSub(X, Y) ELSE BSub(Y, X),
          lo, FALSE)

FAddShifted(sx, sy, X, Y, lo) == FAddAligned(sx, sy, X, Y, BCmp(X, Y), lo)

FAddNum(x, y, lo) ==
    FAddShifted(x.s, y.s, BShl(x.m, x.e - lo), BShl(y.m, y.e - lo), lo)

\* x + y
FAdd(x, y) ==
    IF x.k = "nan" \/ y.k = "nan" THEN NaN
    ELSE IF x.k = "inf" THEN (IF y.k = "inf" /\ y.s # x.s THEN NaN ELSE x)
    ELSE IF y.k = "inf" THEN y
    ELSE IF x.k = "zero" THEN y
    ELSE IF y.k = "zero" THEN x
    ELSE IF x.e - y.e > MantBits + 2 THEN x
    ELSE IF y.e - x.e > MantBits + 2 THEN y
    ELSE FAddNum(x, y, IF x.e < y.e THEN x.e ELSE y.e)

\* x - y
FSub(x, y) == FAdd(x, FNeg(y))

\* x * y
FMul(x, y) ==
    IF x.k = "nan" \/ y.k = "nan" THEN NaN
    ELSE IF x.k = "inf" \/ y.k = "inf"
         THEN (IF x.k = "zero" \/ y.k = "zero" THEN NaN ELSE Inf((x.s + y.s) % 2))
    ELSE IF x.k = "zero" \/ y.k = "zero" THEN Zero
    ELSE Round((x.s + y.s) % 2, BMul(x.m, y.m), x.e + y.e, FALSE)

\* dm is the quotient and the remainder of the significands
FDivNum(x, y, dm) ==
    Round((x.s + y.s) % 2, dm.q, x.e - y.e - (MantBits + 3), dm.r # <<>>)

\* x / y as IEEE-754 defines it (a zero divisor gives an infinity or a NaN)
FDiv(x, y) ==
    IF x.k = "nan" \/ y.k = "nan" THEN NaN
    ELSE IF x.k = "inf" THEN (IF y.k = "inf" THEN NaN ELSE Inf((x.s + y.s) % 2))
    ELSE IF y.k = "inf" THEN Zero
    ELSE IF y.k = "zero" THEN (IF x.k = "zero" THEN NaN ELSE Inf(x.s))
    ELSE IF x.k = "zero" THEN Zero
    ELSE FDivNum(x, y, BDivMod(BShl(x.m, MantBits + 3), y.m))

FSign(x) == IF x.k = "zero" THEN 0 ELSE IF x.s = 0 THEN 1 ELSE -1

\* |x| against |y| for non-zero x and y: -1, 0, 1
FCmpMag(x, y) ==
    IF x.k = "inf" THEN (IF y.k = "inf" THEN 0 ELSE 1)
    ELSE IF y.k = "inf" THEN -1
    ELSE IF x.e < y.e THEN -1
    ELSE IF x.e > y.e THEN 1
    ELSE BCmp(x.m, y.m)

FCmp(x, y) ==
    IF FSign(x) # FSign(y) THEN (IF FSign(x) < FSign(y) THEN -1 ELSE 1)
    ELSE IF FSign(x) = 0 THEN 0
    ELSE FSign(x) * FCmpMag(x, y)

\* x < y, x <= y, x == y: False when either is a NaN
FLess(x, y) == x.k # "nan" /\ y.k # "nan" /\ FCmp(x, y) < 0
FLeq(x, y) == x.k # "nan" /\ y.k # "nan" /\ FCmp(x, y) <= 0
FEq(x, y) == x.k # "nan" /\ y.k # "nan" /\ FCmp(x, y) = 0

\* float(n) for an integer n
FromInt(n) ==
    Round(IF n < 0 THEN 1 ELSE 0, BFromNat(IF n < 0 THEN -n ELSE n), 0, FALSE)

\* The float a decimal literal n/d denotes: the float nearest to n/d
F(n, d) == FDiv(FromInt(n), FromInt(d))

\* The significand of torch's default dtype, float32
SingleBits == 24

\* torch.Tensor(x) of a float x: the float32 nearest to x, round to nearest,
\* ties to even, held here as the float of the same value (the model comes
\* near neither the overflow nor the subnormal range of float32).  A float32
\* sum or product of float32 values is Float32 of the float sum or product.
Float32(x) ==
    IF x.k # "num" THEN x
    ELSE Round(x.s,
               IF    BCmp(BLow(x.m, MantBits - SingleBits),
                          BShl(<<1>>, MantBits - SingleBits - 1)) > 0
                  \/ (/\ BCmp(BLow(x.m, MantBits - SingleBits),
                               BShl(<<1>>, MantBits - SingleBits - 1)) = 0
                      /\ BIsOdd(BShr(x.m, MantBits - SingleBits)))
               THEN BAdd(BShr(x.m, MantBits - SingleBits), <<1>>)
               ELSE BShr(x.m, MantBits - SingleBits),
               x.e + (MantBits - SingleBits), FALSE)

(***************************************************************************)
(* The float constants of the source and the values the model draws the   *)
(* environment's numbers from.                                             *)
(***************************************************************************)
\* (-1)^s * 2^e
Dyadic(s, e) == Num(s, <<0, 0, 0, 0, 1>>, e - (MantBits - 1))

One == Dyadic(0, 0)
Two == Dyadic(0, 1)
Half == Dyadic(0, -1)
MinusHalf == Dyadic(1, -1)

(***************************************************************************)
(* State.                                                                  *)
(*   stack   the wrapper classes of the pipeline, outermost first; the     *)
(*           Base Environment is below the last one                        *)
(*   env     the Base Environment (external): the sets its step and reset  *)
(*           results are drawn from                                        *)
(*   the constructor arguments of the wrappers (never assigned after       *)
(*   __init__) and the wrappers' fields                                    *)
(*   ret         what the last call on the outermost wrapper returned      *)
(*   env_action  the action the Base Environment's last step received      *)
(*   history variables: inner_rewards (the Base Environment's rewards, one *)
(*   per step since construction, kept where a DelayedRewardWrapper is in  *)
(*   the stack), n_resets (resets since construction), ep_steps and        *)
(*   ep_goal (steps, and whether the goal predicate held, since the last   *)
(*   reset), last_goal (whether it held in the last step), last_base (what *)
(*   the Base Environment returned in the last call), last_action (the     *)
(*   action the last step was called with), last_calls (how often the last *)
(*   call called the Base Environment's step)                              *)
(*   random_state, own_reads: see below                                    *)
(***************************************************************************)
VARIABLES stack, env,
          target_velocity, tolerance, jump_target_height, delay_steps,
          slow_scale, fast_scale, max_slow_factor,
          steps_to_goal, penalize_non_goal, goal_reached_condition,
          noise_scale, observable_ratio, mask_prob, dynamic_change_threshold,
          reward_buffer, slow_factor, fast_factor, episode_count, current_steps,
          step_count,
          ret, env_action,
          inner_rewards, n_resets, ep_steps, ep_goal, last_goal, last_base,
          last_action, last_calls,
          random_state, own_reads,
          next_done, episode_return, final_return, episode, pc

config == <<stack, env, target_velocity, tolerance, jump_target_height, delay_steps,
            slow_scale, fast_scale, max_slow_factor,
            steps_to_goal, penalize_non_goal, goal_reached_condition,
            noise_scale, observable_ratio, mask_prob, dynamic_change_threshold>>

fields == <<reward_buffer, slow_factor, fast_factor, episode_count, current_steps,
            step_count>>

history == <<inner_rewards, n_resets, ep_steps, ep_goal, last_goal, last_base,
             last_action, last_calls>>

\* The state of the generator of Python's random module, which the process
\* has one of, and how often this stack of wrappers has read it
process == <<random_state, own_reads>>

\* run_episode's locals, the steps episode that it has made since its reset,
\* and where it stands: pc is "idle" before a call, "loop" at the test of
\* its while loop and "returned" after its return
driver == <<next_done, episode_return, final_return, episode, pc>>

vars == <<config, fields, ret, env_action, history, process, driver>>

\* random_state is Unseeded while nothing is known of the generator's state
\* (a read then gives any value of [0, 1)); after random.seed it is the
\* number of values read since, and a read gives the next value of the
\* seed's sequence
Unseeded == -1

RandomValue(position) ==
    CASE position % 3 = 0 -> Zero
      [] position % 3 = 1 -> Num(0, <<8191, 8191, 8191, 8191, 1>>, -53)
      [] OTHER -> Dyadic(0, -2)

\* The generator's state, and the stack's count of reads, after n reads
RandomAfter(state, n) == IF state = Unseeded THEN Unseeded ELSE state + n
ReadsAfter(st, n) ==
    [st EXCEPT !.random_state = RandomAfter(@, n),
               !.own_reads = IF st.random_state = Unseeded THEN @ ELSE @ + n]

\* The index of the velocity and of the torso height in an observation
VelocityIndex == 8
HeightIndex == 0

\* An observation vector with torso height h and velocity v
Obs(h, v) ==
    [i \in 0..VelocityIndex |-> IF i = HeightIndex THEN h ELSE IF i = VelocityIndex THEN v ELSE Zero]

\* info mappings: without the key, and with it set to False and to True
NoInfo == [key \in {} |-> FALSE]
Info(b) == [key \in {"is_goal_reached"} |-> b]

\* dict.get(key, default)
DictGet(d, key, default) == IF key \in DOMAIN d THEN d[key] ELSE default

\* What a step and a reset return
Transition(obs, reward, terminated, truncated, info) ==
    [op |-> "step", obs |-> obs, reward |-> reward, terminated |-> terminated,
     truncated |-> truncated, info |-> info, error |-> "none"]

ResetResult(obs, info) ==
    [op |-> "reset", obs |-> obs, reward |-> Zero, terminated |-> FALSE,
     truncated |-> FALSE, info |-> info, error |-> "none"]

\* A call that raised instead of returning
Raised(error) ==
    [op |-> "raise", obs |-> Obs(Zero, Zero), reward |-> Zero, terminated |-> FALSE,
     truncated |-> FALSE, info |-> NoInfo, error |-> error]

NoCall ==
    [op |-> "init", obs |-> Obs(Zero, Zero), reward |-> Zero, terminated |-> FALSE,
     truncated |-> FALSE, info |-> NoInfo, error |-> "none"]

\* The wrappers' fields and the process's state as one value, threaded
\* through a call
Fields ==
    [reward_buffer |-> reward_buffer, slow_factor |-> slow_factor,
     fast_factor |-> fast_factor, episode_count |-> episode_count,
     current_steps |-> current_steps, step_count |-> step_count,
     random_state |-> random_state, own_reads |-> own_reads]

\* The Base Environment's results: every combination of what env offers
BaseSteps ==
    {Transition(Obs(h, v), r, fl[1], fl[2], i) :
        h \in env.heights, v \in env.velocities, r \in env.rewards,
        fl \in env.flags, i \in env.infos}

BaseResets == {ResetResult(Obs(h, v), i) : h \in env.heights, v \in env.velocities, i \in env.infos}

(***************************************************************************)
(* The wrappers.  A step of a wrapper is its code before self.env.step     *)
(* (what it does to the action), the inner step, and its code after it;    *)
(* r is what self.env.step returned, threaded through the stack as         *)
(* [st, t, env_action, goal, calls]: the fields after the call, what it    *)
(* returns, the action the Base Environment received, whether the goal     *)
(* predicate held and how often the Base Environment's step was called.    *)
(* d holds the call's draws: the Base Environment's result, the random    *)
(* numbers and the outcome of whatever the source leaves open.             *)
(***************************************************************************)

\* max(0, x): the first argument unless the second is greater
PyMax0(x) == IF FLess(Zero, x) THEN x ELSE Zero

\* A velocity reward without the floor at 0
velocity_reward_unfloored(velocity_error) == FSub(One, FDiv(velocity_error, tolerance))

\* velocity_reward of TargetVelocityWrapper.step, where the divisor is not 0
velocity_reward(velocity_error) ==
    PyMax0(FSub(One, FDiv(velocity_error, tolerance)))

\* A float divided by 0: Python's float raises ZeroDivisionError, numpy's
\* float64 (an element of an ndarray observation) gives inf or nan with a
\* RuntimeWarning.  Which one obs holds is the Base Environment's choice.
DivZeroOutcomes == {"raise", "ieee"}

\* A Target-Velocity step that reads the Base Environment's observation
TargetVelocityWrapper_step_raw(r, d) ==
    IF tolerance = Zero /\ d.divzero = "raise"
    THEN [r EXCEPT !.t = Raised("ZeroDivisionError")]
    ELSE [r EXCEPT !.t.reward =
              velocity_reward(FAbs(FSub(target_velocity, d.base.obs[VelocityIndex])))]

\* A Target-Velocity step that adds its reward to the inner one
TargetVelocityWrapper_step_adds(r, d) ==
    IF tolerance = Zero /\ d.divzero = "raise"
    THEN [r EXCEPT !.t = Raised("ZeroDivisionError")]
    ELSE [r EXCEPT !.t.reward =
              FAdd(@, velocity_reward(FAbs(FSub(target_velocity, r.t.obs[VelocityIndex]))))]

TargetVelocityWrapper_step(r, d) ==
    IF tolerance = Zero /\ d.divzero = "raise"
    THEN [r EXCEPT !.t = Raised("ZeroDivisionError")]
    ELSE [r EXCEPT !.t.reward =
              velocity_reward(FAbs(FSub(target_velocity, r.t.obs[VelocityIndex])))]

\* height_reward of JumpRewardWrapper.step, where the divisor is not 0
height_reward(torso_height) == FDiv(torso_height, jump_target_height)

\* A Jump-Reward step that clears the truncated flag
JumpRewardWrapper_step_untruncated(r, d) ==
    IF jump_target_height = Zero /\ d.divzero = "raise"
    THEN [r EXCEPT !.t = Raised("ZeroDivisionError")]
    ELSE [r EXCEPT !.t.reward = height_reward(r.t.obs[HeightIndex]),
                   !.t.truncated = FALSE]

\* JumpRewardWrapper.step after self.env.step
JumpRewardWrapper_step(r, d) ==
    IF jump_target_height = Zero /\ d.divzero = "raise"
    THEN [r EXCEPT !.t = Raised("ZeroDivisionError")]
    ELSE [r EXCEPT !.t.reward = height_reward(r.t.obs[HeightIndex])]

\* An append at the front of the deque
DequeAppend_front(buf, maxlen, x) == <<x>> \o buf

\* deque(maxlen=maxlen).append(x): a full deque drops its oldest entry
DequeAppend(buf, maxlen, x) ==
    IF maxlen = 0 THEN buf
    ELSE IF Len(buf) = maxlen THEN Tail(buf) \o <<x>>
    ELSE Append(buf, x)

\* A release that returns the oldest reward and leaves it in the buffer
DelayedRewardWrapper_release_keep(pushed) ==
    IF Len(pushed) < delay_steps
    THEN [buffer |-> pushed, out |-> Zero, error |-> "none"]
    ELSE IF pushed = <<>>
    THEN [buffer |-> pushed, out |-> Zero, error |-> "IndexError"]
    ELSE [buffer |-> pushed, out |-> Head(pushed), error |-> "none"]

\* A release that pops the newest reward of the buffer instead of the oldest
DelayedRewardWrapper_release_newest(pushed) ==
    IF Len(pushed) < delay_steps
    THEN [buffer |-> pushed, out |-> Zero, error |-> "none"]
    ELSE IF pushed = <<>>
    THEN [buffer |-> pushed, out |-> Zero, error |-> "IndexError"]
    ELSE [buffer |-> SubSeq(pushed, 1, Len(pushed) - 1), out |-> pushed[Len(pushed)],
          error |-> "none"]

\* The rest of DelayedRewardWrapper.reward, pushed being the buffer after
\* the append: the buffer afterwards and the reward returned
DelayedRewardWrapper_release(pushed) ==
    IF Len(pushed) < delay_steps
    THEN [buffer |-> pushed, out |-> Zero, error |-> "none"]
    ELSE IF pushed = <<>>
    THEN [buffer |-> pushed, out |-> Zero, error |-> "IndexError"]
    ELSE [buffer |-> Tail(pushed), out |-> Head(pushed), error |-> "none"]

\* DelayedRewardWrapper.reward
DelayedRewardWrapper_reward(buf, reward) ==
    DelayedRewardWrapper_release(DequeAppend(buf, delay_steps, reward))

\* What the step returns when self.reward went as w
DelayedRewardWrapper_return(r, w) ==
    IF w.error # "none"
    THEN [r EXCEPT !.st.reward_buffer = w.buffer, !.t = Raised(w.error)]
    ELSE [r EXCEPT !.st.reward_buffer = w.buffer, !.t.reward = w.out]

\* gym.RewardWrapper.step: the inner step, then self.reward(reward)
DelayedRewardWrapper_step(r) ==
    DelayedRewardWrapper_return(r, DelayedRewardWrapper_reward(r.st.reward_buffer, r.t.reward))

\* np.random.uniform(low, high): a draw from [low, high); the model draws
\* the low end and the middle
UniformDraws(low, high) == {low, FMul(Half, FAdd(low, high))}

\* modified_action of MultiTimescaleWrapper.step
MultiTimescaleWrapper_action(action, d) ==
    [i \in DOMAIN action |-> FMul(action[i], FAdd(One, d.fast_change[i]))]

\* MultiTimescaleWrapper.step after self.env.step
MultiTimescaleWrapper_step(r) ==
    [r EXCEPT !.t.reward = FMul(r.t.reward, r.st.slow_factor)]

\* MultiTimescaleWrapper.reset before self.env.reset
MultiTimescaleWrapper_reset(st) ==
    [st EXCEPT !.slow_factor = IF FLess(st.slow_factor, max_slow_factor)
                               THEN FAdd(st.slow_factor, slow_scale)
                               ELSE st.slow_factor,
               !.fast_factor = One,
               !.episode_count = st.episode_count + 1]

\* MultiTimescaleWrapper.get_factors
get_factors == <<slow_factor, fast_factor>>

\* A default predicate that takes a missing key for a reached goal
default_goal_reached_condition_missing(obs, info) == DictGet(info, "is_goal_reached", TRUE)

\* MultiStepTaskWrapper._default_goal_reached_condition
default_goal_reached_condition(obs, info) == DictGet(info, "is_goal_reached", FALSE)

\* self.goal_reached_condition(obs, info): the default, or the predicate
\* given to __init__, which may answer anything
goal_reached(obs, info, d) ==
    IF goal_reached_condition = "default"
    THEN default_goal_reached_condition(obs, info)
    ELSE d.goal

\* A step whose timeout fires one step late
MultiStepTaskWrapper_step_late(r, d) ==
    IF goal_reached(r.t.obs, r.t.info, d)
    THEN [r EXCEPT !.t.reward = One, !.st.current_steps = 0, !.goal = TRUE]
    ELSE IF r.st.current_steps + 1 > steps_to_goal
    THEN [r EXCEPT !.t.reward = IF penalize_non_goal THEN MinusHalf ELSE @,
                   !.st.current_steps = 0]
    ELSE [r EXCEPT !.t.reward = Zero, !.st.current_steps = @ + 1]

\* MultiStepTaskWrapper.step after self.env.step
MultiStepTaskWrapper_step(r, d) ==
    IF goal_reached(r.t.obs, r.t.info, d)
    THEN [r EXCEPT !.t.reward = One, !.st.current_steps = 0, !.goal = TRUE]
    ELSE IF r.st.current_steps + 1 >= steps_to_goal
    THEN [r EXCEPT !.t.reward = IF penalize_non_goal THEN MinusHalf ELSE @,
                   !.st.current_steps = 0]
    ELSE [r EXCEPT !.t.reward = Zero, !.st.current_steps = @ + 1]

\* A reset that keeps the step counter
MultiStepTaskWrapper_reset_keep(st) == [st EXCEPT !.current_steps = @]

\* MultiStepTaskWrapper.reset before self.env.reset
MultiStepTaskWrapper_reset(st) == [st EXCEPT !.current_steps = 0]

\* np.random.normal(0, noise_scale) of a standard normal draw z
Noise(z) == FAdd(Zero, FMul(noise_scale, z))

\* NoisyObservationWrapper.observation
NoisyObservationWrapper_observation(observation, d) ==
    [i \in DOMAIN observation |-> FAdd(observation[i], Noise(d.normal[i]))]

\* An observation masked the other way round: np.where(mask, 0, observation)
PartialObservabilityWrapper_observation_inverted(observation, d) ==
    [i \in DOMAIN observation |->
        IF FLess(d.rand[i], observable_ratio) THEN Zero ELSE observation[i]]

\* PartialObservabilityWrapper.observation: np.where(mask, observation, 0)
\* with mask = np.random.rand(...) < observable_ratio
PartialObservabilityWrapper_observation(observation, d) ==
    [i \in DOMAIN observation |->
        IF FLess(d.rand[i], observable_ratio) THEN observation[i] ELSE Zero]

\* gym.ObservationWrapper.step and .reset: the inner call, then
\* self.observation on the observation it returned
ObservationWrapper_return(class, r, d) ==
    IF class = "NoisyObservationWrapper"
    THEN [r EXCEPT !.t.obs = NoisyObservationWrapper_observation(@, d)]
    ELSE [r EXCEPT !.t.obs = PartialObservabilityWrapper_observation(@, d)]

\* A mask that also falls when the draw equals mask_prob
ActionMaskingWrapper_action_leq(action, d) ==
    IF FLeq(d.mask_draw, mask_prob) THEN [i \in DOMAIN action |-> Zero] ELSE action

\* The action ActionMaskingWrapper.step passes on: np.zeros_like(action)
\* when random.random() < mask_prob
ActionMaskingWrapper_action(action, d) ==
    IF FLess(d.mask_draw, mask_prob) THEN [i \in DOMAIN action |-> Zero] ELSE action

\* 1.2 and 2.0 - 1.2
DynamicsLow == Num(0, <<4915, 6553, 3276, 1638, 1>>, -52)
DynamicsSpan == Num(0, <<6554, 3276, 1638, 4915, 1>>, -53)

\* random.uniform(1.2, 2.0): a + (b - a) * random()
DynamicsFactor(u) == FAdd(DynamicsLow, FMul(DynamicsSpan, u))

\* Dynamics that change from the step at the threshold on
NonLinearDynamicsWrapper_action_early(count, action, d) ==
    IF count >= dynamic_change_threshold
    THEN IF FLess(Half, d.coin)
         THEN [i \in DOMAIN action |-> FMul(action[i], DynamicsFactor(d.factor))]
         ELSE [i \in DOMAIN action |-> FDiv(action[i], DynamicsFactor(d.factor))]
    ELSE action

\* The action NonLinearDynamicsWrapper.step passes on, count being
\* self.step_count after its increment
NonLinearDynamicsWrapper_action(count, action, d) ==
    IF count > dynamic_change_threshold
    THEN IF FLess(Half, d.coin)
         THEN [i \in DOMAIN action |-> FMul(action[i], DynamicsFactor(d.factor))]
         ELSE [i \in DOMAIN action |-> FDiv(action[i], DynamicsFactor(d.factor))]
    ELSE action

\* The fields after a wrapper's step has run its code before self.env.step
StepFields(class, st) ==
    CASE class = "ActionMaskingWrapper" -> ReadsAfter(st, 1)
      [] class = "NonLinearDynamicsWrapper" ->
             [ReadsAfter(st, IF st.step_count + 1 > dynamic_change_threshold THEN 2 ELSE 0)
                 EXCEPT !.step_count = @ + 1]
      [] OTHER -> st

\* The values random.random() and random.uniform return to a wrapper's
\* step: the draws of d, or the next values of a seeded generator
RandomDraws(st, d) ==
    IF st.random_state = Unseeded THEN d
    ELSE [d EXCEPT !.mask_draw = RandomValue(st.random_state),
                   !.coin = RandomValue(st.random_state),
                   !.factor = RandomValue(st.random_state + 1)]

\* The action a wrapper's step hands to self.env.step
StepAction(class, st, action, d) ==
    CASE class = "MultiTimescaleWrapper" -> MultiTimescaleWrapper_action(action, d)
      [] class = "ActionMaskingWrapper" ->
             ActionMaskingWrapper_action(action, RandomDraws(st, d))
      [] class = "NonLinearDynamicsWrapper" ->
             NonLinearDynamicsWrapper_action(st.step_count + 1, action, RandomDraws(st, d))
      [] OTHER -> action

ObservationWrappers == {"NoisyObservationWrapper", "PartialObservabilityWrapper"}

\* What a wrapper's step makes of the result r of self.env.step; an
\* exception of the inner step passes through every wrapper
StepResult(class, r, d) ==
    IF r.t.op = "raise" THEN r
    ELSE CASE class = "TargetVelocityWrapper" -> TargetVelocityWrapper_step(r, d)
           [] class = "JumpRewardWrapper" -> JumpRewardWrapper_step(r, d)
           [] class = "DelayedRewardWrapper" -> DelayedRewardWrapper_step(r)
           [] class = "MultiTimescaleWrapper" -> MultiTimescaleWrapper_step(r)
           [] class = "MultiStepTaskWrapper" -> MultiStepTaskWrapper_step(r, d)
           [] class \in ObservationWrappers -> ObservationWrapper_return(class, r, d)
           [] OTHER -> r

\* step(action) of the stack stk of wrappers over the Base Environment
RECURSIVE WrapperStep(_, _, _, _)
WrapperStep(stk, st, action, d) ==
    IF stk = <<>>
    THEN [st |-> st, t |-> d.base, env_action |-> action, goal |-> FALSE, calls |-> 1]
    ELSE StepResult(Head(stk),
                    WrapperStep(Tail(stk), StepFields(Head(stk), st),
                                StepAction(Head(stk), st, action, d), d),
                    d)

\* The fields after a wrapper's reset has run its code before self.env.reset;
\* a wrapper that defines no reset inherits gym.Wrapper.reset, which only
\* calls the inner reset
ResetFields(class, st) ==
    CASE class = "MultiTimescaleWrapper" -> MultiTimescaleWrapper_reset(st)
      [] class = "MultiStepTaskWrapper" -> MultiStepTaskWrapper_reset(st)
      [] OTHER -> st

\* What a wrapper's reset makes of the result r of self.env.reset
ResetReturn(class, r, d) ==
    IF class \in ObservationWrappers THEN ObservationWrapper_return(class, r, d) ELSE r

\* reset() of the stack stk of wrappers over the Base Environment
RECURSIVE WrapperReset(_, _, _)
WrapperReset(stk, st, d) ==
    IF stk = <<>>
    THEN [st |-> st, t |-> d.base]
    ELSE ResetReturn(Head(stk), WrapperReset(Tail(stk), ResetFields(Head(stk), st), d), d)

InStack(class) == \E i \in 1..Len(stack) : stack[i] = class

\* Vectors of draws, one per component of an observation: the components of
\* the torso height and of the velocity draw on their own, the others draw
\* together
DrawVectors(draws) ==
    {[i \in 0..VelocityIndex |-> IF i = HeightIndex THEN h ELSE IF i = VelocityIndex THEN v ELSE o] :
        h \in draws, v \in draws, o \in draws}

\* The draws of the observation wrappers in a step or a reset: standard
\* normal ones of np.random.normal and ones in [0, 1) of np.random.rand
NormalDraws ==
    IF InStack("NoisyObservationWrapper") THEN DrawVectors(env.normals)
    ELSE {[i \in 0..VelocityIndex |-> Zero]}

RandDraws ==
    IF InStack("PartialObservabilityWrapper") THEN DrawVectors(env.uniforms)
    ELSE {[i \in 0..VelocityIndex |-> Zero]}

\* Whether the next step of a NonLinearDynamicsWrapper draws, from a
\* generator of unknown state
DynamicsDraw ==
    /\ InStack("NonLinearDynamicsWrapper")
    /\ step_count + 1 > dynamic_change_threshold
    /\ random_state = Unseeded

\* The draws one step can make
StepDraws(action) ==
    [base : BaseSteps,
     fast_change : IF InStack("MultiTimescaleWrapper")
                   THEN [DOMAIN action -> UniformDraws(FNeg(fast_scale), fast_scale)]
                   ELSE {[i \in DOMAIN action |-> Zero]},
     goal : IF InStack("MultiStepTaskWrapper") /\ goal_reached_condition # "default"
            THEN BOOLEAN ELSE {FALSE},
     divzero : IF    (InStack("TargetVelocityWrapper") /\ tolerance = Zero)
                  \/ (InStack("JumpRewardWrapper") /\ jump_target_height = Zero)
               THEN DivZeroOutcomes ELSE {"ieee"},
     normal : NormalDraws,
     rand : RandDraws,
     mask_draw : IF InStack("ActionMaskingWrapper") /\ random_state = Unseeded
                 THEN env.uniforms ELSE {Zero},
     coin : IF DynamicsDraw THEN env.uniforms ELSE {Zero},
     factor : IF DynamicsDraw THEN env.uniforms ELSE {Zero}]

\* The draws one reset can make
ResetDraws == [base : BaseResets, normal : NormalDraws, rand : RandDraws]

\* The state after a step that went as r
StepTo(r, d) ==
    /\ reward_buffer' = r.st.reward_buffer
    /\ slow_factor' = r.st.slow_factor
    /\ fast_factor' = r.st.fast_factor
    /\ episode_count' = r.st.episode_count
    /\ current_steps' = r.st.current_steps
    /\ step_count' = r.st.step_count
    /\ random_state' = r.st.random_state
    /\ own_reads' = r.st.own_reads
    /\ ret' = r.t
    /\ env_action' = r.env_action
    /\ last_calls' = r.calls
    /\ inner_rewards' = IF InStack("DelayedRewardWrapper")
                        THEN Append(inner_rewards, d.base.reward) ELSE inner_rewards
    /\ last_base' = d.base
    /\ ep_steps' = ep_steps + 1
    /\ ep_goal' = (ep_goal \/ r.goal)
    /\ last_goal' = r.goal
    /\ UNCHANGED <<config, n_resets>>

\* step(action) on the outermost wrapper
envs_step ==
    \E action \in env.actions :
      \E d \in StepDraws(action) :
        StepTo(WrapperStep(stack, Fields, action, d), d) /\ last_action' = action

\* A step that a caller other than run_episode makes
Step == envs_step /\ UNCHANGED driver

\* The state after a reset that went as r
ResetTo(r, d) ==
    /\ reward_buffer' = r.st.reward_buffer
    /\ slow_factor' = r.st.slow_factor
    /\ fast_factor' = r.st.fast_factor
    /\ episode_count' = r.st.episode_count
    /\ current_steps' = r.st.current_steps
    /\ step_count' = r.st.step_count
    /\ random_state' = r.st.random_state
    /\ own_reads' = r.st.own_reads
    /\ ret' = r.t
    /\ n_resets' = n_resets + 1
    /\ ep_steps' = 0
    /\ ep_goal' = FALSE
    /\ last_goal' = FALSE
    /\ last_base' = d.base
    /\ last_calls' = 0
    /\ UNCHANGED <<config, env_action, inner_rewards, last_action>>

\* reset() on the outermost wrapper
envs_reset ==
    \E d \in ResetDraws : ResetTo(WrapperReset(stack, Fields, d), d)

\* A reset that a caller other than run_episode makes
Reset == envs_reset /\ UNCHANGED driver

(***************************************************************************)
(* Construction.  __init__ stores its arguments and sets the fields; no    *)
(* __init__ checks an argument.  A wrapper that is not in the stack keeps  *)
(* the defaults of its signature.                                          *)
(***************************************************************************)
ConstructedWith(seed) ==
    /\ random_state = seed
    /\ own_reads = 0
    /\ reward_buffer = <<>>
    /\ slow_factor = One
    /\ fast_factor = One
    /\ episode_count = 0
    /\ current_steps = 0
    /\ step_count = 0
    /\ ret = NoCall
    /\ env_action = <<>>
    /\ inner_rewards = <<>>
    /\ n_resets = 0
    /\ ep_steps = 0
    /\ ep_goal = FALSE
    /\ last_goal = FALSE
    /\ last_base = NoCall
    /\ last_action = <<>>
    /\ last_calls = 0
    /\ next_done = FALSE
    /\ episode_return = Zero
    /\ final_return = Zero
    /\ episode = <<>>
    /\ pc = "idle"

\* Construction in a process that never seeded the random module
Constructed == ConstructedWith(Unseeded)

TargetVelocityDefaults == target_velocity = Two /\ tolerance = Half
JumpRewardDefaults == jump_target_height = One
DelayedRewardDefaults == delay_steps = 10
MultiTimescaleDefaults ==
    slow_scale = F(1, 1000) /\ fast_scale = F(1, 10) /\ max_slow_factor = Two
MultiStepTaskDefaults ==
    steps_to_goal = 10 /\ penalize_non_goal = TRUE /\ goal_reached_condition = "default"
NoisyObservationDefaults == noise_scale = Num(0, <<6554, 3276, 1638, 4915, 1>>, -57)
PartialObservabilityDefaults == observable_ratio = Half
ActionMaskingDefaults == mask_prob = Num(0, <<6554, 3276, 1638, 4915, 1>>, -56)
NonLinearDynamicsDefaults == dynamic_change_threshold = 100

\* The defaults of the observation and action wrappers
ObservationActionDefaults ==
    /\ NoisyObservationDefaults /\ PartialObservabilityDefaults
    /\ ActionMaskingDefaults /\ NonLinearDynamicsDefaults


(***************************************************************************)
(* The Delayed-Reward stage alone over a Base Environment.                 *)
(***************************************************************************)
MaxDelay == 3
MaxSteps == 5
MaxResets == 2

DelayedEnv ==
    [heights |-> {One}, velocities |-> {Two}, rewards |-> {One, Two, MinusHalf},
     flags |-> {<<FALSE, FALSE>>, <<TRUE, FALSE>>}, infos |-> {NoInfo},
     actions |-> {<<One>>}]

InitDelayed ==
    /\ stack = <<"DelayedRewardWrapper">>
    /\ env = DelayedEnv
    /\ delay_steps \in 1..MaxDelay
    /\ TargetVelocityDefaults /\ JumpRewardDefaults
    /\ MultiTimescaleDefaults /\ MultiStepTaskDefaults
    /\ ObservationActionDefaults
    /\ Constructed

NextDelayed ==
    \/ Len(inner_rewards) < MaxSteps /\ Step
    \/ n_resets < MaxResets /\ Reset

SpecDelayed == InitDelayed /\ [][NextDelayed]_vars

\* C1: on a freshly constructed Delayed-Reward stage with delay_steps d >= 1,
\* the k-th step (from 0) emits 0 when k < d and the inner reward of step
\* k - d when k >= d.
Claim_C1 ==
    (ret.op = "step" /\ n_resets = 0 /\ delay_steps >= 1) =>
        ret.reward = IF Len(inner_rewards) - 1 < delay_steps
                     THEN Zero
                     ELSE inner_rewards[Len(inner_rewards) - delay_steps]

\* C1 as the code has it: the k-th step emits 0 when k < d - 1 and the
\* inner reward of step k - (d - 1) when k >= d - 1 (delay_steps = 3 turns
\* r0 r1 r2 r3 r4 into 0 0 r0 r1 r2).
Amended_C1 ==
    (ret.op = "step" /\ n_resets = 0 /\ delay_steps >= 1) =>
        ret.reward = IF Len(inner_rewards) < delay_steps
                     THEN Zero
                     ELSE inner_rewards[Len(inner_rewards) - delay_steps + 1]

\* The fourth step of a fresh stage with delay_steps = 3 emits r1, not r0
Witness_C1 ==
    /\ ret.op = "step" /\ n_resets = 0 /\ delay_steps = 3 /\ Len(inner_rewards) = 4
    /\ inner_rewards[1] # inner_rewards[2] /\ ret.reward = inner_rewards[2]

\* C2: after a reset the reward queue is empty, so the first delay_steps
\* steps after every reset emit 0 (no reward of an earlier episode is
\* emitted in a later one).
Claim_C2 ==
    /\ ret.op = "reset" => reward_buffer = <<>>
    /\ (ret.op = "step" /\ n_resets > 0 /\ ep_steps <= delay_steps) => ret.reward = Zero

\* C16: with delay_steps >= 1 the reward queue never holds more than
\* delay_steps entries, holds at most delay_steps - 1 after every completed
\* step, is never popped when empty, and is shorter than its maxlen whenever
\* a step pushes on it, so that no push evicts an entry.
Claim_C16 ==
    /\ [](delay_steps >= 1 =>
            /\ Len(reward_buffer) <= delay_steps
            /\ ret.op = "step" => Len(reward_buffer) <= delay_steps - 1
            /\ ret.error # "IndexError")
    /\ [][(delay_steps >= 1 /\ ret'.op \in {"step", "raise"}) =>
              Len(reward_buffer) < delay_steps]_vars

\* The queue at its largest after pops: two entries with delay_steps = 3
\* after five steps
Witness_C16 ==
    /\ ret.op = "step" /\ delay_steps = 3 /\ Len(inner_rewards) = 5
    /\ Len(reward_buffer) = delay_steps - 1

\* C17: over any steps and resets the rewards a Delayed-Reward stage emits
\* from its queue are inner rewards pushed on the same or an earlier step,
\* in the order of their pushes and each once: the n-th step since
\* construction emits the reward pushed on step n - (delay_steps - 1), and
\* the rewards pushed since stay in the queue, also on a step that returns
\* terminated or truncated.
Claim_C17 ==
    (ret.op = "step" /\ InStack("DelayedRewardWrapper") /\ delay_steps >= 1) =>
        /\ Len(inner_rewards) >= delay_steps =>
              ret.reward = inner_rewards[Len(inner_rewards) - (delay_steps - 1)]
        /\ Len(inner_rewards) < delay_steps =>
              (ret.reward = Zero /\ reward_buffer = inner_rewards)
        /\ Len(inner_rewards) >= delay_steps =>
              reward_buffer = SubSeq(inner_rewards, Len(inner_rewards) - (delay_steps - 1) + 1,
                                     Len(inner_rewards))

\* A terminated step of a second episode that emits a reward of the first
\* and leaves the two rewards pushed last in the queue
Witness_C17 ==
    /\ ret.op = "step" /\ ret.terminated /\ n_resets > 0 /\ ep_steps = 1
    /\ delay_steps = 3 /\ Len(inner_rewards) = 4
    /\ ret.reward = inner_rewards[2] /\ inner_rewards[2] # inner_rewards[4]
    /\ reward_buffer = SubSeq(inner_rewards, 3, 4)

(***************************************************************************)
(* The Multi-Step-Goal stage alone over a Base Environment.                *)
(***************************************************************************)
MaxGoalSteps == 3
MaxGoalRun == 6

GoalEnv ==
    [heights |-> {One}, velocities |-> {Two}, rewards |-> {Two, Dyadic(0, 2)},
     flags |-> {<<FALSE, FALSE>>}, infos |-> {NoInfo, Info(FALSE), Info(TRUE)},
     actions |-> {<<One>>}]

InitGoal ==
    /\ stack = <<"MultiStepTaskWrapper">>
    /\ env = GoalEnv
    /\ steps_to_goal \in 1..MaxGoalSteps
    /\ penalize_non_goal \in BOOLEAN
    /\ goal_reached_condition \in {"default", "custom"}
    /\ TargetVelocityDefaults /\ JumpRewardDefaults
    /\ DelayedRewardDefaults /\ MultiTimescaleDefaults
    /\ ObservationActionDefaults
    /\ Constructed

NextGoal ==
    \/ ep_steps < MaxGoalRun /\ Step
    \/ n_resets < MaxResets /\ Reset

SpecGoal == InitGoal /\ [][NextGoal]_vars

\* C3: on a step where the goal predicate is false and current_steps, after
\* the increment for the step, is at least reward_goal_steps, the reward is
\* -0.5 when penalize_non_goal and 0.0 when not, whatever the inner reward,
\* and current_steps is 0 afterwards.
Claim_C3 ==
    [][(ret'.op = "step" /\ ~last_goal' /\ current_steps + 1 >= steps_to_goal) =>
          /\ ret'.reward = IF penalize_non_goal THEN MinusHalf ELSE Zero
          /\ current_steps' = 0]_vars

\* C4: on a step where the goal predicate holds, at any value of
\* current_steps, the reward is 1.0 and current_steps is 0 afterwards; with
\* the default predicate an info without the key is_goal_reached counts as
\* goal not reached and the step returns.
Claim_C4 ==
    /\ (ret.op = "step" /\ last_goal) => (ret.reward = One /\ current_steps = 0)
    /\ (ret.op \in {"step", "raise"} /\ goal_reached_condition = "default"
            /\ "is_goal_reached" \notin DOMAIN ret.info) =>
           (ret.op = "step" /\ ~last_goal)

\* The goal held on the very step on which the timeout would have fired
Witness_C4 ==
    /\ ret.op = "step" /\ last_goal /\ ret.reward = One
    /\ ep_steps = steps_to_goal /\ steps_to_goal = 1 /\ current_steps = 0

\* C5: with penalize_non_goal and reward_goal_steps = n >= 1, in a run after
\* a reset in which the goal predicate never holds, the reward is -0.5 on
\* the steps n, 2n, 3n, ... of the episode and 0.0 on every other step.
Claim_C5 ==
    (ret.op = "step" /\ n_resets > 0 /\ penalize_non_goal /\ ~ep_goal /\ steps_to_goal >= 1) =>
        ret.reward = IF ep_steps % steps_to_goal = 0 THEN MinusHalf ELSE Zero

\* The second timeout of an episode: step 2n with n = 2
Witness_C5 ==
    /\ ret.op = "step" /\ n_resets > 0 /\ penalize_non_goal /\ ~ep_goal
    /\ steps_to_goal = 2 /\ ep_steps = 4 /\ ret.reward = MinusHalf

\* C18: with reward_goal_steps >= 1, current_steps is at least 0 and less
\* than reward_goal_steps after every step and reset; it is 0 after every
\* reset and after every step on which the goal held or the timeout fired,
\* and after any other step it is one more than before.
Claim_C18 ==
    /\ [](steps_to_goal >= 1 =>
            /\ 0 <= current_steps /\ current_steps < steps_to_goal
            /\ ret.op = "reset" => current_steps = 0)
    /\ [][(steps_to_goal >= 1 /\ ret'.op = "step") =>
              current_steps' = IF last_goal' \/ current_steps + 1 >= steps_to_goal
                               THEN 0 ELSE current_steps + 1]_vars

\* The counter at its largest again after a timeout: 2 of 3 on the fifth
\* step of an episode without a goal
Witness_C18 ==
    /\ ret.op = "step" /\ ~ep_goal /\ steps_to_goal = 3 /\ ep_steps = 5
    /\ current_steps = steps_to_goal - 1

(***************************************************************************)
(* The Multi-Timescale stage alone over a Base Environment.                *)
(***************************************************************************)
MaxEpisodes == 1001
MaxEpSteps == 1

TimescaleEnv ==
    [heights |-> {One}, velocities |-> {Two}, rewards |-> {Two, MinusHalf},
     flags |-> {<<FALSE, FALSE>>}, infos |-> {NoInfo}, actions |-> {<<One>>}]

\* slow_scale and max_slow_factor: the defaults, and pairs that reach the
\* maximum in a few resets
TimescaleConfigs ==
    {<<F(1, 1000), Two>>, <<F(3, 10), Two>>, <<Half, Two>>, <<Half, One>>,
     <<Two, F(3, 2)>>}

InitTimescale ==
    /\ stack = <<"MultiTimescaleWrapper">>
    /\ env = TimescaleEnv
    /\ \E c \in TimescaleConfigs : slow_scale = c[1] /\ max_slow_factor = c[2]
    /\ fast_scale = F(1, 10)
    /\ TargetVelocityDefaults /\ JumpRewardDefaults
    /\ DelayedRewardDefaults /\ MultiStepTaskDefaults
    /\ ObservationActionDefaults
    /\ Constructed

NextTimescale ==
    \/ ep_steps < MaxEpSteps /\ Step
    \/ n_resets < MaxEpisodes /\ Reset

SpecTimescale == InitTimescale /\ [][NextTimescale]_vars

\* 1.0 + slow_scale * n, capped at max_slow_factor
SlowFactorAfter(n) ==
    IF FLess(FAdd(One, FMul(slow_scale, FromInt(n))), max_slow_factor)
    THEN FAdd(One, FMul(slow_scale, FromInt(n)))
    ELSE max_slow_factor

\* 1e-9, the rounding error allowed in comparing two floats
Ulps == F(1, 1000000000)

\* C6: with slow_scale = 0.001 and max_slow_factor = 2.0, after N resets
\* slow_factor is min(1.0 + 0.001 * N, 2.0) (compared up to a rounding error
\* of 1e-9), a step never changes slow_factor, and every step returns the
\* inner reward times slow_factor.
Claim_C6 ==
    /\ []((slow_scale = F(1, 1000) /\ max_slow_factor = Two) =>
            /\ FLeq(FAbs(FSub(slow_factor, SlowFactorAfter(n_resets))), Ulps)
            /\ ret.op = "step" => ret.reward = FMul(last_base.reward, slow_factor))
    /\ [][ret'.op = "step" => slow_factor' = slow_factor]_vars

\* C7: for any slow_scale > 0 and any max_slow_factor >= 1.0, slow_factor is
\* at most max_slow_factor in every reachable state.
Claim_C7 ==
    (FLess(Zero, slow_scale) /\ FLeq(One, max_slow_factor)) =>
        FLeq(slow_factor, max_slow_factor)

(***************************************************************************)
(* The Target-Velocity stage, or the Jump-Reward stage, alone over a Base  *)
(* Environment.                                                            *)
(***************************************************************************)
MaxVelocitySteps == 2

VelocityEnv ==
    [heights |-> {One, Half, MinusHalf, Zero},
     velocities |-> {Two, F(17, 10), F(7, 4), F(3, 2), F(9, 4), Dyadic(0, 2),
                     MinusHalf, Inf(0), NaN},
     rewards |-> {One}, flags |-> {<<FALSE, FALSE>>}, infos |-> {NoInfo},
     actions |-> {<<One>>}]

InitVelocity ==
    /\ env = VelocityEnv
    /\ \/ /\ stack = <<"TargetVelocityWrapper">>
          /\ target_velocity \in {Two, Zero}
          /\ tolerance \in {Half, F(3, 10), Zero}
          /\ JumpRewardDefaults
       \/ /\ stack = <<"JumpRewardWrapper">>
          /\ jump_target_height \in {One, Half, Zero}
          /\ TargetVelocityDefaults
    /\ DelayedRewardDefaults /\ MultiTimescaleDefaults /\ MultiStepTaskDefaults
    /\ ObservationActionDefaults
    /\ Constructed

NextVelocity ==
    \/ ep_steps < MaxVelocitySteps /\ Step
    \/ n_resets < MaxResets /\ Reset

SpecVelocity == InitVelocity /\ [][NextVelocity]_vars

\* abs(target_velocity - velocity) of the observation a call returned
VelocityError(t) == FAbs(FSub(target_velocity, t.obs[VelocityIndex]))

\* C8: with tolerance > 0 the Target-Velocity reward is within [0.0, 1.0],
\* is 1.0 when the velocity is the target velocity, is 0.0 when the absolute
\* error is at least the tolerance, and of two steps the one with the larger
\* absolute error has no larger reward.
Claim_C8 ==
    /\ []((ret.op = "step" /\ Head(stack) = "TargetVelocityWrapper" /\ FLess(Zero, tolerance)) =>
            /\ FLeq(Zero, ret.reward) /\ FLeq(ret.reward, One)
            /\ FEq(ret.obs[VelocityIndex], target_velocity) => ret.reward = One
            /\ FLeq(tolerance, VelocityError(ret)) => ret.reward = Zero)
    /\ [][(/\ ret.op = "step" /\ ret'.op = "step"
           /\ Head(stack) = "TargetVelocityWrapper" /\ FLess(Zero, tolerance)
           /\ FLeq(VelocityError(ret), VelocityError(ret'))) =>
              FLeq(ret'.reward, ret.reward)]_vars

\* A step with an error strictly between 0 and the tolerance, after a step
\* at the target velocity
Witness_C8 ==
    /\ ret.op = "step" /\ Head(stack) = "TargetVelocityWrapper" /\ FLess(Zero, tolerance)
    /\ FLess(Zero, VelocityError(ret)) /\ FLess(VelocityError(ret), tolerance)
    /\ FLess(Zero, ret.reward) /\ FLess(ret.reward, One)

\* C9: a stage whose reward formula divides by a parameter is not
\* constructed with that parameter at 0 (tolerance = 0 of Target-Velocity,
\* jump_target_height = 0 of Jump-Reward), so no step of a constructed stage
\* divides by zero.
Claim_C9 ==
    ret.op \in {"step", "raise"} =>
        /\ InStack("TargetVelocityWrapper") => tolerance # Zero
        /\ InStack("JumpRewardWrapper") => jump_target_height # Zero
        /\ ret.error # "ZeroDivisionError"

(***************************************************************************)
(* A reward-overwriting stage (Target-Velocity or Jump-Reward) outermost   *)
(* over one of the stateful reward stages.                                 *)
(***************************************************************************)
MaxStackRun == 2

StackedEnv ==
    [heights |-> {One, Half}, velocities |-> {Two, F(7, 4)}, rewards |-> {One, Two},
     flags |-> {<<FALSE, FALSE>>}, infos |-> {NoInfo, Info(TRUE)},
     actions |-> {<<One>>}]

InitStacked ==
    /\ stack \in {<<outer, inner>> :
                    outer \in {"TargetVelocityWrapper", "JumpRewardWrapper"},
                    inner \in {"DelayedRewardWrapper", "MultiTimescaleWrapper",
                               "MultiStepTaskWrapper"}}
    /\ env = StackedEnv
    /\ TargetVelocityDefaults
    /\ jump_target_height = Half
    /\ delay_steps = 2
    /\ slow_scale = Half /\ fast_scale = F(1, 10) /\ max_slow_factor = Two
    /\ steps_to_goal = 2 /\ penalize_non_goal = TRUE /\ goal_reached_condition = "default"
    /\ ObservationActionDefaults
    /\ Constructed

NextStacked ==
    \/ ep_steps < MaxStackRun /\ Len(inner_rewards) < MaxSteps /\ Step
    \/ n_resets < MaxResets /\ Reset

SpecStacked == InitStacked /\ [][NextStacked]_vars

\* C10: with Target-Velocity or Jump-Reward outermost, the reward a step
\* returns is a function of the observation it returns and the outer stage's
\* configuration only: it is the outer stage's formula of that observation,
\* and two steps returning the same observation return the same reward,
\* whatever the Base Environment's reward and the inner stage's state.
Claim_C10 ==
    /\ []((ret.op = "step" /\ Head(stack) = "TargetVelocityWrapper") =>
              ret.reward = velocity_reward(VelocityError(ret)))
    /\ []((ret.op = "step" /\ Head(stack) = "JumpRewardWrapper") =>
              ret.reward = height_reward(ret.obs[HeightIndex]))
    /\ [][(ret.op = "step" /\ ret'.op = "step" /\ ret'.obs = ret.obs) =>
              ret'.reward = ret.reward]_vars

\* Target-Velocity over a Multi-Timescale stage whose slow_factor has grown:
\* the Base Environment's reward was 2.0, the step returns 1.0
Witness_C10 ==
    /\ ret.op = "step" /\ stack = <<"TargetVelocityWrapper", "MultiTimescaleWrapper">>
    /\ slow_factor # One /\ last_base.reward = Two
    /\ ret.obs[VelocityIndex] = target_velocity /\ ret.reward = One

(***************************************************************************)
(* The Target-Velocity stage outside an observation stage.                 *)
(***************************************************************************)
ObservedEnv ==
    [heights |-> {One}, velocities |-> {Two, F(7, 4)}, rewards |-> {One},
     flags |-> {<<FALSE, FALSE>>}, infos |-> {NoInfo}, actions |-> {<<One>>},
     normals |-> {One, MinusHalf}, uniforms |-> {Zero, F(3, 4)}]

InitObserved ==
    /\ stack \in {<<"TargetVelocityWrapper", "NoisyObservationWrapper">>,
                  <<"TargetVelocityWrapper", "PartialObservabilityWrapper">>}
    /\ env = ObservedEnv
    /\ TargetVelocityDefaults /\ JumpRewardDefaults
    /\ DelayedRewardDefaults /\ MultiTimescaleDefaults /\ MultiStepTaskDefaults
    /\ noise_scale \in {Half, F(5, 100)}
    /\ PartialObservabilityDefaults
    /\ ActionMaskingDefaults /\ NonLinearDynamicsDefaults
    /\ Constructed

NextObserved ==
    \/ ep_steps < MaxVelocitySteps /\ Step
    \/ n_resets < MaxResets /\ Reset

SpecObserved == InitObserved /\ [][NextObserved]_vars

\* C11: with Target-Velocity outside Noisy-Observation or
\* Partial-Observability, the reward of every step is the Target-Velocity
\* formula of the velocity component of the observation the step returns,
\* which is the inner stage's transform of the Base Environment's
\* observation (the raw velocity plus noise, or the raw velocity or 0).
Claim_C11 ==
    (ret.op = "step" /\ Head(stack) = "TargetVelocityWrapper") =>
        /\ ret.reward = velocity_reward(VelocityError(ret))
        /\ InStack("NoisyObservationWrapper") =>
              \E z \in env.normals :
                  ret.obs[VelocityIndex] = FAdd(last_base.obs[VelocityIndex], Noise(z))
        /\ InStack("PartialObservabilityWrapper") =>
              ret.obs[VelocityIndex] \in {last_base.obs[VelocityIndex], Zero}

\* The noise moved the velocity off the target: the raw observation would
\* have earned 1.0, the step returns less
Witness_C11 ==
    /\ ret.op = "step" /\ stack = <<"TargetVelocityWrapper", "NoisyObservationWrapper">>
    /\ last_base.obs[VelocityIndex] = target_velocity
    /\ ret.obs[VelocityIndex] # target_velocity
    /\ FLess(ret.reward, One)

(***************************************************************************)
(* An action stage (Action-Masking or Nonlinear-Dynamics) alone over a     *)
(* Base Environment.                                                       *)
(***************************************************************************)
MaxThreshold == 2
MaxActionSteps == 2

\* The largest float below 1.0
AlmostOne == Num(0, <<8191, 8191, 8191, 8191, 1>>, -53)

ActionEnv ==
    [heights |-> {One}, velocities |-> {Two}, rewards |-> {One},
     flags |-> {<<FALSE, FALSE>>}, infos |-> {NoInfo},
     actions |-> {<<One, MinusHalf>>, <<Two, Half>>},
     uniforms |-> {Zero, F(3, 4), AlmostOne}]

InitAction ==
    /\ env = ActionEnv
    /\ \/ /\ stack = <<"ActionMaskingWrapper">>
          /\ mask_prob \in {Zero, One, Half, F(1, 10)}
          /\ NonLinearDynamicsDefaults
       \/ /\ stack = <<"NonLinearDynamicsWrapper">>
          /\ dynamic_change_threshold \in 0..MaxThreshold
          /\ ActionMaskingDefaults
    /\ TargetVelocityDefaults /\ JumpRewardDefaults
    /\ DelayedRewardDefaults /\ MultiTimescaleDefaults /\ MultiStepTaskDefaults
    /\ NoisyObservationDefaults /\ PartialObservabilityDefaults
    /\ Constructed

NextAction ==
    \/ ep_steps < MaxActionSteps /\ Step
    \/ n_resets < MaxResets /\ Reset

SpecAction == InitAction /\ [][NextAction]_vars

\* C12: whatever the draw in [0, 1), an Action-Masking stage with
\* mask_prob = 0.0 passes the caller's action on unchanged on every step,
\* and one with mask_prob = 1.0 passes the all-zero vector on every step.
Claim_C12 ==
    (ret.op = "step" /\ Head(stack) = "ActionMaskingWrapper") =>
        /\ mask_prob = Zero => env_action = last_action
        /\ mask_prob = One => env_action = [i \in DOMAIN last_action |-> Zero]

\* A step with mask_prob = 1.0 in a second episode: the action 1.0, -0.5
\* reached the Base Environment as 0.0, 0.0
Witness_C12 ==
    /\ ret.op = "step" /\ stack = <<"ActionMaskingWrapper">> /\ mask_prob = One
    /\ n_resets > 0 /\ last_action = <<One, MinusHalf>> /\ env_action = <<Zero, Zero>>

\* The actions a Nonlinear-Dynamics step past the threshold can pass on
DynamicsActions(action) ==
    UNION {{[i \in DOMAIN action |-> FMul(action[i], DynamicsFactor(u))],
            [i \in DOMAIN action |-> FDiv(action[i], DynamicsFactor(u))]} :
           u \in env.uniforms}

\* C14: the step counter of a Nonlinear-Dynamics stage starts at 0, grows by
\* one with every step and is not changed by reset, so it counts the step
\* calls since construction; the k-th step passes the action on unchanged
\* when k <= dynamic_change_threshold, and every later step passes on the
\* action multiplied or divided, in every component, by one factor in
\* [1.2, 2.0] (which changes a non-zero action).
Claim_C14 ==
    /\ [][(ret'.op = "step" /\ InStack("NonLinearDynamicsWrapper")) =>
              step_count' = step_count + 1]_vars
    /\ [][ret'.op = "reset" => step_count' = step_count]_vars
    /\ []((ret.op = "step" /\ InStack("NonLinearDynamicsWrapper")) =>
            /\ step_count <= dynamic_change_threshold => env_action = last_action
            /\ step_count > dynamic_change_threshold =>
                  /\ env_action \in DynamicsActions(last_action)
                  /\ env_action # last_action)
    /\ [](\A u \in env.uniforms :
              FLeq(DynamicsLow, DynamicsFactor(u)) /\ FLeq(DynamicsFactor(u), Two))

\* The first changed action comes in a later episode than the first step:
\* the counter ran on over a reset
Witness_C14 ==
    /\ ret.op = "step" /\ stack = <<"NonLinearDynamicsWrapper">>
    /\ n_resets > 0 /\ ep_steps = 1 /\ dynamic_change_threshold = 2
    /\ step_count = dynamic_change_threshold + 1
    /\ env_action # last_action

(***************************************************************************)
(* The Partial-Observability stage alone over a Base Environment.          *)
(***************************************************************************)
PartialEnv ==
    [heights |-> {One, MinusHalf}, velocities |-> {Two, Half}, rewards |-> {One},
     flags |-> {<<FALSE, FALSE>>}, infos |-> {NoInfo}, actions |-> {<<One>>},
     uniforms |-> {Zero, F(3, 4), AlmostOne}]

InitPartial ==
    /\ stack = <<"PartialObservabilityWrapper">>
    /\ env = PartialEnv
    /\ observable_ratio \in {One, Half, Zero}
    /\ TargetVelocityDefaults /\ JumpRewardDefaults
    /\ DelayedRewardDefaults /\ MultiTimescaleDefaults /\ MultiStepTaskDefaults
    /\ NoisyObservationDefaults /\ ActionMaskingDefaults /\ NonLinearDynamicsDefaults
    /\ Constructed

NextPartial ==
    \/ ep_steps < MaxVelocitySteps /\ Step
    \/ n_resets < MaxResets /\ Reset

SpecPartial == InitPartial /\ [][NextPartial]_vars

\* C13: a Partial-Observability stage with observable_ratio = 1.0 returns,
\* from every step and every reset and whatever the mask draws in [0, 1),
\* the inner observation in every component; with any observable_ratio each
\* component it returns is the inner component or 0.
Claim_C13 ==
    (ret.op \in {"step", "reset"} /\ Head(stack) = "PartialObservabilityWrapper") =>
        /\ observable_ratio = One => ret.obs = last_base.obs
        /\ \A i \in DOMAIN ret.obs : ret.obs[i] \in {last_base.obs[i], Zero}

\* A reset with observable_ratio = 1.0 that returned the torso height -0.5
\* and the velocity 2.0 of the Base Environment
Witness_C13 ==
    /\ ret.op = "reset" /\ stack = <<"PartialObservabilityWrapper">>
    /\ observable_ratio = One /\ n_resets = 2
    /\ last_base.obs[HeightIndex] = MinusHalf /\ ret.obs[HeightIndex] = MinusHalf
    /\ ret.obs[VelocityIndex] = Two

(***************************************************************************)
(* An Action-Masking stage in a process that seeded the random module and  *)
(* runs a second pipeline with an Action-Masking stage of its own.         *)
(***************************************************************************)
MaxOtherSteps == 2

RandomEnv ==
    [heights |-> {One}, velocities |-> {Two}, rewards |-> {One, Two},
     flags |-> {<<FALSE, FALSE>>}, infos |-> {NoInfo},
     actions |-> {<<One, MinusHalf>>, <<Two, Half>>}]

InitRandom ==
    /\ stack = <<"ActionMaskingWrapper">>
    /\ env = RandomEnv
    /\ mask_prob \in {Half, F(1, 10)}
    /\ TargetVelocityDefaults /\ JumpRewardDefaults
    /\ DelayedRewardDefaults /\ MultiTimescaleDefaults /\ MultiStepTaskDefaults
    /\ NoisyObservationDefaults /\ PartialObservabilityDefaults
    /\ NonLinearDynamicsDefaults
    /\ ConstructedWith(0)

\* A step of the other pipeline: its ActionMaskingWrapper.step calls
\* random.random(), which reads and advances the process's generator
OtherPipelineStep ==
    /\ random_state' = RandomAfter(random_state, 1)
    /\ UNCHANGED <<config, fields, ret, env_action, history, own_reads, driver>>

NextRandom ==
    \/ ep_steps < MaxActionSteps /\ Step
    \/ n_resets < MaxResets /\ Reset
    \/ random_state - own_reads < MaxOtherSteps /\ OtherPipelineStep

SpecRandom == InitRandom /\ [][NextRandom]_vars

\* C15: no stage reads process-wide random state, so the draws a pipeline
\* sees, and hence its transitions, do not depend on the calls made on
\* another pipeline of the process: the k-th step of the Action-Masking
\* stage masks exactly when the k-th value of the seed's sequence is below
\* mask_prob, whatever the other pipeline did in between.
Claim_C15 ==
    (ret.op = "step" /\ random_state # Unseeded) =>
        env_action = IF FLess(RandomValue(own_reads - 1), mask_prob)
                     THEN [i \in DOMAIN last_action |-> Zero]
                     ELSE last_action

(***************************************************************************)
(* Stacks of the nine stages over a Base Environment that returns every    *)
(* combination of the terminated and truncated flags.                      *)
(***************************************************************************)
RewardActionStack ==
    <<"TargetVelocityWrapper", "JumpRewardWrapper", "DelayedRewardWrapper",
      "MultiTimescaleWrapper", "MultiStepTaskWrapper", "ActionMaskingWrapper",
      "NonLinearDynamicsWrapper">>

NineStack ==
    <<"NonLinearDynamicsWrapper", "ActionMaskingWrapper", "PartialObservabilityWrapper",
      "MultiStepTaskWrapper", "NoisyObservationWrapper", "MultiTimescaleWrapper",
      "DelayedRewardWrapper", "JumpRewardWrapper", "TargetVelocityWrapper">>

PipelineEnv ==
    [heights |-> {One}, velocities |-> {Two}, rewards |-> {Two},
     flags |-> {<<FALSE, FALSE>>, <<TRUE, FALSE>>, <<FALSE, TRUE>>, <<TRUE, TRUE>>},
     infos |-> {NoInfo, Info(TRUE)}, actions |-> {<<One>>},
     normals |-> {One}, uniforms |-> {Zero}]

InitPipeline ==
    /\ stack \in {RewardActionStack, NineStack} \cup {<<NineStack[i]>> : i \in DOMAIN NineStack}
    /\ env = PipelineEnv
    /\ TargetVelocityDefaults /\ JumpRewardDefaults
    /\ delay_steps = 2
    /\ MultiTimescaleDefaults
    /\ steps_to_goal = 2 /\ penalize_non_goal = TRUE /\ goal_reached_condition = "default"
    /\ NoisyObservationDefaults /\ PartialObservabilityDefaults
    /\ ActionMaskingDefaults
    /\ dynamic_change_threshold = 1
    /\ Constructed

NextPipeline ==
    \/ ep_steps < MaxVelocitySteps /\ Len(inner_rewards) < MaxSteps /\ Step
    \/ n_resets < MaxResets /\ Reset

SpecPipeline == InitPipeline /\ [][NextPipeline]_vars

\* C19: for any stack of the nine stages, the terminated and truncated flags
\* and the info mapping every step returns are those the Base Environment
\* returned for the step; a stack of reward and action stages returns the
\* Base Environment's observation unchanged; and every step calls the Base
\* Environment's step once.
Claim_C19 ==
    ret.op = "step" =>
        /\ ret.terminated = last_base.terminated
        /\ ret.truncated = last_base.truncated
        /\ ret.info = last_base.info
        /\ (\A i \in DOMAIN stack : stack[i] \notin ObservationWrappers) =>
               ret.obs = last_base.obs
        /\ last_calls = 1

\* A step of the stack of all nine stages that the Base Environment both
\* terminated and truncated, with is_goal_reached in its info
Witness_C19 ==
    /\ ret.op = "step" /\ stack = NineStack
    /\ last_base.terminated /\ last_base.truncated /\ last_base.info = Info(TRUE)
    /\ ret.terminated /\ ret.truncated /\ ret.info = Info(TRUE)
    /\ ret.reward # last_base.reward

(***************************************************************************)
(* run_episode of the visualizer, over a vector environment of one         *)
(* environment.  Its tensors are float32; next_done holds one flag.  The   *)
(* try of update_visualization catches what it raises, and the agent's     *)
(* action is any action of the environment.                                *)
(***************************************************************************)
\* What episode records of a step's return
StepRecord(t) == [reward |-> t.reward, done |-> (t.terminated \/ t.truncated)]

\* episode_return += reward without the factor ~next_done
run_episode_add_unmasked(total, reward, done) ==
    Float32(FAdd(total, Float32(reward)))

\* episode_return += torch.Tensor(reward) * (~next_done)
run_episode_add(total, reward, done) ==
    Float32(FAdd(total, Float32(FMul(Float32(reward), IF done THEN Zero ELSE One))))

\* The lines of run_episode before its loop
run_episode_reset ==
    /\ pc \in {"idle", "returned"}
    /\ envs_reset
    /\ next_done' = FALSE
    /\ episode_return' = Zero
    /\ episode' = <<>>
    /\ pc' = "loop"
    /\ UNCHANGED final_return

\* One turn of the while loop
run_episode_step ==
    /\ pc = "loop"
    /\ ~next_done
    /\ envs_step
    /\ next_done' = (ret'.terminated \/ ret'.truncated)
    /\ episode_return' = run_episode_add(episode_return, ret'.reward,
                                         ret'.terminated \/ ret'.truncated)
    /\ episode' = Append(episode, StepRecord(ret'))
    /\ UNCHANGED <<final_return, pc>>

\* The loop's exit and the return
run_episode_return ==
    /\ pc = "loop"
    /\ next_done
    /\ final_return' = episode_return
    /\ pc' = "returned"
    /\ UNCHANGED <<config, fields, ret, env_action, history, process,
                   next_done, episode_return, episode>>

(***************************************************************************)
(* The driver over a Base Environment without wrappers.                    *)
(***************************************************************************)
MaxRun == 3
MaxRuns == 2

DriverEnv ==
    [heights |-> {One}, velocities |-> {Two},
     rewards |-> {One, MinusHalf, F(1, 10)},
     flags |-> {<<FALSE, FALSE>>, <<TRUE, FALSE>>, <<FALSE, TRUE>>, <<TRUE, TRUE>>},
     infos |-> {NoInfo}, actions |-> {<<One>>},
     normals |-> {One}, uniforms |-> {Zero}]

InitDriver ==
    /\ stack = <<>>
    /\ env = DriverEnv
    /\ TargetVelocityDefaults /\ JumpRewardDefaults /\ DelayedRewardDefaults
    /\ MultiTimescaleDefaults /\ MultiStepTaskDefaults
    /\ ObservationActionDefaults
    /\ Constructed

NextDriver ==
    \/ n_resets < MaxRuns /\ run_episode_reset
    \/ Len(episode) < MaxRun /\ run_episode_step
    \/ run_episode_return

SpecDriver == InitDriver /\ [][NextDriver]_vars

\* The float32 sum, in the order of the steps, of the rewards of the steps
\* from the i-th on that no flag ended, on top of total
RECURSIVE ReturnFrom(_, _, _)
ReturnFrom(steps, i, total) ==
    IF i > Len(steps) THEN total
    ELSE ReturnFrom(steps, i + 1,
                    IF steps[i].done THEN total
                    ELSE Float32(FAdd(total, Float32(steps[i].reward))))

\* C20: with one environment and finite rewards, run_episode's loop stops
\* after the first step whose terminated or truncated flag is true, and the
\* value it returns is the float32 sum of the rewards of the steps whose
\* flags were both false: the reward of the step that ends the episode is
\* not added.
Claim_C20 ==
    /\ pc = "loop" =>
          /\ \A i \in 1..(Len(episode) - 1) : ~episode[i].done
          /\ next_done = (episode # <<>> /\ episode[Len(episode)].done)
    /\ pc = "returned" =>
          /\ episode # <<>>
          /\ episode[Len(episode)].done
          /\ \A i \in 1..(Len(episode) - 1) : ~episode[i].done
          /\ final_return = ReturnFrom(episode, 1, Zero)
          /\ final_return = ReturnFrom(SubSeq(episode, 1, Len(episode) - 1), 1, Zero)

\* A returned episode of three steps whose last step had a reward that is
\* not 0, and whose return is not 0 either
Witness_C20 ==
    /\ pc = "returned" /\ Len(episode) = 3
    /\ episode[3].reward # Zero
    /\ episode[1].reward = episode[2].reward /\ episode[1].reward # One
    /\ final_return # Zero
    /\ final_return # FAdd(episode[1].reward, episode[2].reward)

====
